---- MODULE Spec2Model ----
(***************************************************************************)
(* ws-multiplexer: logical WebSocket streams multiplexed over one physical *)
(* WebSocket.  The model holds the client pool (client.ts), the client and *)
(* server multiplexers (client.ts, server.ts) and the shared engine and    *)
(* logical socket (socket.ts).  Strings are tuples of one-character        *)
(* strings, so that the URL conversions are computed as the code does.     *)
(***************************************************************************)
EXTENDS Naturals, Integers, Sequences, FiniteSets, TLC

\* ------------------------------------------------------------- bounds
\* Logical streams the client application creates.
MaxSocks == 2
\* Data frames the applications put on the wire, over both sides.
MaxData == 1
\* The event and frame counters of a stream saturate here.
MaxCount == 2

\* ---------------------------------------------------------- constants
CONNECTING == 0
OPEN == 1
CLOSING == 2
CLOSED == 3

\* The values randomId can return (five base-36 digits in the code).
Ids == {"a", "b"}
\* The URLs the client application asks for, and the sub-protocols.
URLs == { <<"h", "/", "e">>, <<"h", "/", "x">> }
Protocols == { <<>> }
\* The same with a second endpoint and a sub-protocol, for the pool.
PoolURLs == URLs \cup { <<"g", "/", "e">>, <<"h", "p", "/", "e">> }
PoolProtocols == { <<>>, <<"p">> }
\* The names of the backend table handed to the server.
Backends == { <<"e">> }
\* Close codes: what an application passes to close(), what the transport reports.
AppCodes == {1000}
TransportCodes == {1006}
NoCode == 0 - 1

Undef == 0
NoId == "none"

Min(a, b) == IF a < b THEN a ELSE b

\* --------------------------------------------------- string conversions
\* s.lastIndexOf(ch), 1-based; 0 when ch does not occur (-1 in the code).
LastIndexOf(s, ch) ==
    LET hits == {i \in 1..Len(s) : s[i] = ch}
    IN IF hits = {} THEN 0 ELSE CHOOSE i \in hits : \A j \in hits : j <= i

\* url.substring(0, url.lastIndexOf('/')): a negative end is taken as 0.
BaseOf(url) == SubSeq(url, 1, LastIndexOf(url, "/") - 1)

\* s.split('/')
RECURSIVE Split(_)
Split(s) ==
    LET hits == {i \in 1..Len(s) : s[i] = "/"}
    IN IF hits = {} THEN <<s>>
       ELSE LET i == CHOOSE k \in hits : \A j \in hits : k <= j
            IN <<SubSeq(s, 1, i - 1)>> \o Split(SubSeq(s, i + 1, Len(s)))

\* msg.backend.split('/').filter(p => p).pop(); <<>> stands for undefined.
BackendId(url) ==
    LET parts == SelectSeq(Split(url), LAMBDA p : p # <<>>)
    IN IF parts = <<>> THEN <<>> ELSE parts[Len(parts)]

\* getBackend: the table entry, or undefined.
getBackend(url) == BackendId(url) # <<>> /\ BackendId(url) \in Backends

\* The pool key of getMuxer: url + (protocols?.toString() || '').
MuxerId(url, protocols) == url \o protocols

PoolIds == { MuxerId(BaseOf(u), p) : u \in PoolURLs, p \in PoolProtocols }

\* ------------------------------------------------ the channel registry
\* A JavaScript object with string keys: entries in insertion order.
Has(reg, k) == \E i \in 1..Len(reg) : reg[i].k = k
Get(reg, k) ==
    IF Has(reg, k) THEN reg[CHOOSE i \in 1..Len(reg) : reg[i].k = k].v ELSE Undef
Put(reg, k, v) ==
    IF Has(reg, k)
    THEN [i \in 1..Len(reg) |-> IF reg[i].k = k THEN [k |-> k, v |-> v] ELSE reg[i]]
    ELSE Append(reg, [k |-> k, v |-> v])
Del(reg, k) == SelectSeq(reg, LAMBDA e : e.k # k)
Values(reg) == [i \in 1..Len(reg) |-> reg[i].v]

\* -------------------------------------------------------------- frames
\* by and late are history fields the code does not have.  by: the stream a
\* connect frame was built for, the server stream an open frame announces,
\* the stream that sent a data frame.  late: close() had completed on the
\* sender of a data frame when it sent.
Frame(type, channel, ref, backend, code) ==
    [type |-> type, channel |-> channel, ref |-> ref, backend |-> backend,
     code |-> code, by |-> Undef, late |-> FALSE]
ConnectMsg(ref, url, by) == [Frame("connect", NoId, ref, url, NoCode) EXCEPT !.by = by]
OpenMsg(channel, ref, by) == [Frame("open", channel, ref, <<>>, NoCode) EXCEPT !.by = by]
CloseMsg(channel, code) == Frame("close", channel, NoId, <<>>, code)
DataMsg(channel, by, late) ==
    [Frame("data", channel, NoId, <<>>, NoCode) EXCEPT !.by = by, !.late = late]

VARIABLES
    registry,    \* client.ts registry: pool id -> physical connection (Undef: none)
    conns,       \* the physical connections, in the order they were opened
    channels,    \* channels[m]: the registry of the MultiplexerClient of connection m
    schannels,   \* the registry of the MultiplexerServer
    socks,       \* the logical streams of both sides, in creation order
    c2s,         \* c2s[m]: frames in flight from client to server on connection m
    s2c,         \* s2c[m]: frames in flight from server to client on connection m
    nData,       \* data frames put on the wire so far
    again        \* history: some close() call found its stream closed already

vars == <<registry, conns, channels, schannels, socks, c2s, s2c, nData, again>>

\* -------------------------------------------------------- the streams
\* AbstractMultiplexSocket and the close closure installed on it.  closeFn is
\* "temp" for the handler of connect() (it captures ref) and "full" for the
\* closure of addChannel (it captures closed).  The other fields are history:
\* protocols (the sub-protocols the constructor was given), opens and closes
\* (open and close events delivered), code (of the last close event), closeTx
\* (close frames handed to the open socket), done (close() has completed),
\* reopened (an open event was delivered after that), rx (the senders of the
\* message events delivered) and peer (the stream the handshake paired it with).
NewSock(side, url, m) ==
    [side |-> side, url |-> url, protocols |-> <<>>, socket |-> m, channel |-> NoId,
     closeFn |-> "temp", ref |-> NoId, closed |-> FALSE,
     opens |-> 0, closes |-> 0, code |-> NoCode, closeTx |-> 0,
     done |-> FALSE, reopened |-> FALSE, rx |-> {}, peer |-> Undef]

\* The physical connection m as each side sees it: rs is the client
\* WebSocket's readyState, srv the server WebSocket's (CONNECTING until the
\* server has accepted).  pending is the queue of postponed sends, undefined
\* once pendingDef is FALSE.  tx is a history field: the streams whose connect
\* frame was handed to the open socket, in order.
NewConn(url, protocols) ==
    [url |-> IF url = <<>> THEN <<"/">> ELSE url, protocols |-> protocols,
     rs |-> CONNECTING, srv |-> CONNECTING,
     pending |-> <<>>, pendingDef |-> TRUE, tx |-> <<>>]

\* get readyState() { return this.socket.readyState; }
readyState(s) == IF s.side = "c" THEN conns[s.socket].rs ELSE conns[s.socket].srv

\* The socket of connection m is open on this side; closing is the connection
\* whose close handler is running (its readyState is CLOSED already).
SocketOpen(side, m, closing) ==
    /\ m # closing
    /\ IF side = "c" THEN conns[m].rs = OPEN ELSE conns[m].srv = OPEN

\* The other end of connection m has closed: what is sent is lost.
PeerGone(side, m) == IF side = "c" THEN conns[m].srv = CLOSED ELSE conns[m].rs = CLOSED

\* socket.send(frame) on connection m; q is this side's outbound queues.
SocketSend(q, side, m, f, closing) ==
    IF SocketOpen(side, m, closing) /\ ~PeerGone(side, m)
    THEN [q EXCEPT ![m] = Append(@, f)]
    ELSE q

Bump(n) == Min(n + 1, MaxCount)

\* The engine's state while a handler runs: the streams, the registry of the
\* multiplexer the handler belongs to, this side's outbound queues, and the
\* history variable again.
St(ss, reg, q) == [socks |-> ss, reg |-> reg, q |-> q, again |-> again]

\* sock.close = () => delete this.channels[ref]
TempClose(st, i) ==
    [st EXCEPT !.reg = Del(@, st.socks[i].ref), !.socks[i].done = TRUE]

\* The closure without its closed flag.
FullCloseNoFlag(st, i, code, closing) ==
    LET s == st.socks[i]
        open == SocketOpen(s.side, s.socket, closing)
    IN [again |-> st.again,
        socks |-> [st.socks EXCEPT ![i] =
                      [s EXCEPT !.closed = TRUE, !.done = TRUE,
                                !.closeTx = IF open THEN Bump(@) ELSE @,
                                !.closes = Bump(@), !.code = code]],
        reg |-> Del(st.reg, s.channel),
        q |-> SocketSend(st.q, s.side, s.socket, CloseMsg(s.channel, code), closing)]

\* The closure without the delete of its registry entry.
FullCloseKeepsEntry(st, i, code, closing) ==
    LET s == st.socks[i]
        open == SocketOpen(s.side, s.socket, closing)
    IN IF s.closed
       THEN [st EXCEPT !.again = TRUE]
       ELSE [again |-> st.again,
             socks |-> [st.socks EXCEPT ![i] =
                          [s EXCEPT !.closed = TRUE, !.done = TRUE,
                                    !.closeTx = IF open THEN Bump(@) ELSE @,
                                    !.closes = Bump(@), !.code = code]],
             reg |-> st.reg,
             q |-> SocketSend(st.q, s.side, s.socket, CloseMsg(s.channel, code), closing)]

\* The closure addChannel installs: nothing when closed is set; else set it,
\* send a close frame if the socket is open, emit the close event, delete the entry.
FullClose(st, i, code, closing) ==
    LET s == st.socks[i]
        open == SocketOpen(s.side, s.socket, closing)
    IN IF s.closed
       THEN [st EXCEPT !.again = TRUE]
       ELSE [again |-> st.again,
             socks |-> [st.socks EXCEPT ![i] =
                          [s EXCEPT !.closed = TRUE, !.done = TRUE,
                                    !.closeTx = IF open THEN Bump(@) ELSE @,
                                    !.closes = Bump(@), !.code = code]],
             reg |-> Del(st.reg, s.channel),
             q |-> SocketSend(st.q, s.side, s.socket, CloseMsg(s.channel, code), closing)]

\* sock.close(code, reason), whichever closure is installed.
DoClose(st, i, code, closing) ==
    IF st.socks[i].closeFn = "temp" THEN TempClose(st, i)
    ELSE FullClose(st, i, code, closing)

\* addChannel(sock, channel)
addChannel(st, i, channel) ==
    [st EXCEPT !.socks[i].channel = channel,
               !.socks[i].closed = FALSE,
               !.socks[i].closeFn = "full",
               !.reg = Put(@, channel, i)]

\* randomId(): any of the ids; nothing in the code looks at the ids in use.
randomId == Ids

ClientSocks == {i \in 1..Len(socks) : socks[i].side = "c"}
ServerSocks == {i \in 1..Len(socks) : socks[i].side = "s"}

Init ==
    /\ registry = [id \in PoolIds |-> Undef]
    /\ conns = <<>>
    /\ channels = <<>>
    /\ schannels = <<>>
    /\ socks = <<>>
    /\ c2s = <<>>
    /\ s2c = <<>>
    /\ nData = 0
    /\ again = FALSE

\* ------------------------------------------------------------ client.ts
\* getMuxer without the pool: a new connection each time.
getMuxerNoPool(id) == Len(conns) + 1
\* getMuxer: the pooled connection of the id, or a new one (the next index).
getMuxer(id) == IF registry[id] = Undef THEN Len(conns) + 1 ELSE registry[id]

\* MultiplexerClient.connect, the part after the registration: send the
\* connect frame now when pending is undefined, else postpone it.
connectSend(c, q, msg) ==
    IF ~c.pendingDef
    THEN [c |-> [c EXCEPT !.tx = IF c.rs = OPEN THEN Append(@, msg.by) ELSE @],
          q |-> IF c.rs = OPEN /\ c.srv # CLOSED THEN Append(q, msg) ELSE q]
    ELSE [c |-> [c EXCEPT !.pending = Append(@, msg)], q |-> q]

\* new MultiplexSocket(url, protocols): getMuxer, with the MultiplexerClient
\* constructor when the pool has no entry, then muxer.connect(this).
Create(url, protocols) ==
    /\ Cardinality(ClientSocks) < MaxSocks
    /\ LET base == BaseOf(url)
           id == MuxerId(base, protocols)
           m == getMuxer(id)
           fresh == m > Len(conns)
           c == IF fresh THEN NewConn(base, protocols) ELSE conns[m]
           reg == IF fresh THEN <<>> ELSE channels[m]
           q == IF fresh THEN <<>> ELSE c2s[m]
           i == Len(socks) + 1
       IN \E ref \in randomId :
            LET sent == connectSend(c, q, ConnectMsg(ref, url, i))
            IN /\ registry' = [registry EXCEPT ![id] = m]
               /\ conns' = IF fresh THEN Append(conns, sent.c)
                           ELSE [conns EXCEPT ![m] = sent.c]
               /\ channels' = IF fresh THEN Append(channels, Put(reg, ref, i))
                              ELSE [channels EXCEPT ![m] = Put(reg, ref, i)]
               /\ c2s' = IF fresh THEN Append(c2s, sent.q) ELSE [c2s EXCEPT ![m] = sent.q]
               /\ s2c' = IF fresh THEN Append(s2c, <<>>) ELSE s2c
               /\ socks' = Append(socks, [NewSock("c", url, m) EXCEPT
                                             !.ref = ref, !.protocols = protocols])
    /\ UNCHANGED <<schannels, nData, again>>

\* The flush in the reverse order.
flushReversed(c, q) ==
    [c |-> [c EXCEPT !.tx = @ \o [k \in 1..Len(c.pending) |->
                                    c.pending[Len(c.pending) + 1 - k].by],
                     !.pending = <<>>, !.pendingDef = FALSE],
     q |-> q \o [k \in 1..Len(c.pending) |-> c.pending[Len(c.pending) + 1 - k]]]
\* The flush of socket.onopen: every postponed send runs, in order, and
\* pending becomes undefined.
flush(c, q) ==
    [c |-> [c EXCEPT !.tx = @ \o [k \in 1..Len(c.pending) |-> c.pending[k].by],
                     !.pending = <<>>, !.pendingDef = FALSE],
     q |-> q \o c.pending]

\* The transport of connection m becomes ready: the server has accepted it
\* (wss.on('connection'): the handlers are wired) and the client's
\* socket.onopen runs.
TransportOpen(m) ==
    /\ m \in 1..Len(conns)
    /\ conns[m].rs = CONNECTING
    /\ LET c == [conns[m] EXCEPT !.rs = OPEN, !.srv = OPEN]
           done == flush(c, c2s[m])
       IN /\ conns' = [conns EXCEPT ![m] = done.c]
          /\ c2s' = [c2s EXCEPT ![m] = done.q]
    /\ UNCHANGED <<registry, channels, schannels, socks, s2c, nData, again>>

\* handleOpenMessage(msg).  With no stream at msg.ref the remap stores
\* undefined under msg.channel and addChannel throws, which socket.onmessage
\* catches: the registry keeps what the remap did.
handleOpenMessage(st, msg) ==
    LET i == Get(st.reg, msg.ref)
        moved == [st EXCEPT !.reg = Del(Put(@, msg.channel, i), msg.ref)]
    IN IF i = Undef THEN moved
       ELSE LET added == addChannel(moved, i, msg.channel)
            IN [added EXCEPT !.socks[i].opens = Bump(@),
                             !.socks[i].reopened = @ \/ added.socks[i].done,
                             !.socks[i].peer = msg.by,
                             !.socks[msg.by].peer = i]

\* AbstractMultiplexSocket.handleMessage(msg) on stream i.
handleMessage(st, i, msg) ==
    IF msg.type = "data" THEN [st EXCEPT !.socks[i].rx = @ \cup {msg.by}]
    ELSE IF msg.type = "close" THEN DoClose(st, i, msg.code, Undef)
    ELSE st

\* Multiplexer.handleChannelMessage(msg): a miss is logged and dropped.
handleChannelMessage(st, msg) ==
    LET i == Get(st.reg, msg.channel)
    IN IF i = Undef THEN st ELSE handleMessage(st, i, msg)

\* socket.onmessage of the MultiplexerClient of connection m.
ClientReceive(m) ==
    /\ m \in 1..Len(conns)
    /\ conns[m].rs = OPEN
    /\ s2c[m] # <<>>
    /\ LET msg == Head(s2c[m])
           st == St(socks, channels[m], c2s)
           done == IF msg.type = "open" THEN handleOpenMessage(st, msg)
                   ELSE handleChannelMessage(st, msg)
       IN /\ socks' = done.socks
          /\ channels' = [channels EXCEPT ![m] = done.reg]
          /\ c2s' = done.q
          /\ again' = done.again
          /\ s2c' = [s2c EXCEPT ![m] = Tail(@)]
    /\ UNCHANGED <<registry, conns, schannels, nData>>

\* ------------------------------------------------------------ server.ts
\* What a backend does with the stream while handleConnectMessage calls it.
BackendActs == {"none", "close"}

\* handleConnectMessage(msg, socket) on connection m, after getBackend found
\* the backend: the open frame, the new stream i, addChannel, the backend's
\* call, the open event.
handleConnectMessage(st, m, msg, channel, act) ==
    LET i == Len(st.socks) + 1
        sent == [st EXCEPT !.q = SocketSend(@, "s", m, OpenMsg(channel, msg.ref, i), Undef),
                           !.socks = Append(@, NewSock("s", <<>>, m))]
        added == addChannel(sent, i, channel)
        called == IF act = "close"
                  THEN DoClose(added, i, CHOOSE code \in AppCodes : TRUE, Undef)
                  ELSE added
    IN [called EXCEPT !.socks[i].opens = Bump(@),
                      !.socks[i].reopened = @ \/ called.socks[i].done]

\* socket.onmessage of the server for connection m.
ServerReceive(m) ==
    /\ m \in 1..Len(conns)
    /\ conns[m].srv = OPEN
    /\ c2s[m] # <<>>
    /\ LET msg == Head(c2s[m])
           st == St(socks, schannels, s2c)
       IN \E channel \in randomId, act \in BackendActs :
            LET done == IF msg.type = "connect"
                        THEN IF getBackend(msg.backend)
                             THEN handleConnectMessage(st, m, msg, channel, act)
                             ELSE st
                        ELSE handleChannelMessage(st, msg)
            IN /\ socks' = done.socks
               /\ schannels' = done.reg
               /\ s2c' = done.q
               /\ again' = done.again
               /\ c2s' = [c2s EXCEPT ![m] = Tail(@)]
    /\ UNCHANGED <<registry, conns, channels, nData>>

\* ------------------------------------------------- transport close
\* socket.onclose of wireDefaultEvents: Object.values(this.channels)
\* .forEach(sock => sock.close(code, reason)) over the snapshot vals, from
\* entry k on.  An undefined entry makes sock.close throw, which ends the loop.
RECURSIVE closeAll(_, _, _, _, _)
closeAll(st, vals, k, code, closing) ==
    IF k > Len(vals) THEN st
    ELSE IF vals[k] = Undef THEN st
    ELSE closeAll(DoClose(st, vals[k], code, closing), vals, k + 1, code, closing)

\* The client's WebSocket of connection m closes (or fails to connect).
ClientSocketClose(m, code) ==
    /\ m \in 1..Len(conns)
    /\ conns[m].rs # CLOSED
    /\ LET done == closeAll(St(socks, channels[m], c2s), Values(channels[m]), 1, code, m)
       IN /\ socks' = done.socks
          /\ channels' = [channels EXCEPT ![m] = done.reg]
          /\ c2s' = done.q
          /\ again' = done.again
    /\ conns' = [conns EXCEPT ![m].rs = CLOSED]
    /\ s2c' = [s2c EXCEPT ![m] = <<>>]
    /\ UNCHANGED <<registry, schannels, nData>>

\* The server's WebSocket of connection m closes.
ServerSocketClose(m, code) ==
    /\ m \in 1..Len(conns)
    /\ conns[m].srv = OPEN
    /\ LET done == closeAll(St(socks, schannels, s2c), Values(schannels), 1, code, m)
       IN /\ socks' = done.socks
          /\ schannels' = done.reg
          /\ s2c' = done.q
          /\ again' = done.again
    /\ conns' = [conns EXCEPT ![m].srv = CLOSED]
    /\ c2s' = [c2s EXCEPT ![m] = <<>>]
    /\ UNCHANGED <<registry, channels, nData>>

\* ------------------------------------------------- the applications
\* The registry of the multiplexer stream i belongs to.
RegOf(i) == IF socks[i].side = "c" THEN channels[socks[i].socket] ELSE schannels
QueuesOf(i) == IF socks[i].side = "c" THEN c2s ELSE s2c

\* AbstractMultiplexSocket.send(data): nothing without a channel, else a
\* data frame on the socket.
send(q, i) ==
    IF socks[i].channel = NoId THEN q
    ELSE SocketSend(q, socks[i].side, socks[i].socket,
                    DataMsg(socks[i].channel, i, socks[i].done), Undef)

\* An application calls send on stream i.
Send(i) ==
    /\ i \in 1..Len(socks)
    /\ nData < MaxData
    /\ IF socks[i].side = "c"
       THEN c2s' = send(c2s, i) /\ s2c' = s2c
       ELSE s2c' = send(s2c, i) /\ c2s' = c2s
    /\ nData' = IF c2s' = c2s /\ s2c' = s2c THEN nData ELSE nData + 1
    /\ UNCHANGED <<registry, conns, channels, schannels, socks, again>>

\* An application calls close(code) on stream i.
Close(i, code) ==
    /\ i \in 1..Len(socks)
    /\ LET done == DoClose(St(socks, RegOf(i), QueuesOf(i)), i, code, Undef)
       IN /\ socks' = done.socks
          /\ again' = done.again
          /\ IF socks[i].side = "c"
             THEN /\ channels' = [channels EXCEPT ![socks[i].socket] = done.reg]
                  /\ c2s' = done.q
                  /\ UNCHANGED <<schannels, s2c>>
             ELSE /\ schannels' = done.reg
                  /\ s2c' = done.q
                  /\ UNCHANGED <<channels, c2s>>
    /\ UNCHANGED <<registry, conns, nData>>

Next ==
    \/ \E url \in URLs, protocols \in Protocols : Create(url, protocols)
    \/ \E m \in 1..MaxSocks : TransportOpen(m)
    \/ \E m \in 1..MaxSocks : ClientReceive(m)
    \/ \E m \in 1..MaxSocks : ServerReceive(m)
    \/ \E m \in 1..MaxSocks, code \in TransportCodes : ClientSocketClose(m, code)
    \/ \E m \in 1..MaxSocks, code \in TransportCodes : ServerSocketClose(m, code)
    \/ \E i \in 1..(2 * MaxSocks) : Send(i)
    \/ \E i \in 1..(2 * MaxSocks), code \in AppCodes : Close(i, code)

Spec == Init /\ [][Next]_vars

\* The client pool over several endpoints and sub-protocols, with the client's
\* part of each connection's life: the server does not answer here.
NextPool ==
    \/ \E url \in PoolURLs, protocols \in PoolProtocols : Create(url, protocols)
    \/ \E m \in 1..MaxSocks : TransportOpen(m)
    \/ \E m \in 1..MaxSocks, code \in TransportCodes : ClientSocketClose(m, code)
    \/ \E i \in 1..(2 * MaxSocks), code \in AppCodes : Close(i, code)

SpecPool == Init /\ [][NextPool]_vars

\* The streams' life without application data, with the scheduling the event
\* loops give: a frame that has arrived is handed to socket.onmessage.
NextNoData ==
    \/ \E url \in URLs, protocols \in Protocols : Create(url, protocols)
    \/ \E m \in 1..MaxSocks : TransportOpen(m)
    \/ \E m \in 1..MaxSocks : ClientReceive(m)
    \/ \E m \in 1..MaxSocks : ServerReceive(m)
    \/ \E m \in 1..MaxSocks, code \in TransportCodes : ClientSocketClose(m, code)
    \/ \E m \in 1..MaxSocks, code \in TransportCodes : ServerSocketClose(m, code)
    \/ \E i \in 1..(2 * MaxSocks), code \in AppCodes : Close(i, code)

SpecFair ==
    /\ Init /\ [][NextNoData]_vars
    /\ \A m \in 1..MaxSocks : WF_vars(ClientReceive(m)) /\ WF_vars(ServerReceive(m))

\* One server with several accepted connections: the client asks for one
\* endpoint under different sub-protocols, which getMuxer pools apart.
ServerURLs == { <<"h", "/", "e">> }
NextServer ==
    \/ \E url \in ServerURLs, protocols \in PoolProtocols : Create(url, protocols)
    \/ \E m \in 1..MaxSocks : TransportOpen(m)
    \/ \E m \in 1..MaxSocks : ClientReceive(m)
    \/ \E m \in 1..MaxSocks : ServerReceive(m)
    \/ \E m \in 1..MaxSocks, code \in TransportCodes : ServerSocketClose(m, code)
    \/ \E i \in 1..(2 * MaxSocks) : Send(i)

SpecServer == Init /\ [][NextServer]_vars

\* ------------------------------------------------------------ the claims
\* A stream on which the closure of addChannel is installed and has not run.
IsOpen(i) == socks[i].closeFn = "full" /\ ~socks[i].closed
Frames == UNION { {c2s[m][k] : k \in 1..Len(c2s[m])} \cup {s2c[m][k] : k \in 1..Len(s2c[m])}
                  : m \in 1..Len(conns) }

\* C1: the channel id handleConnectMessage gives a new stream differs from the
\* id of every open stream of the connection, so that every open server
\* stream stays registered under its own id.
C1_UniqueChannelIds ==
    \A i \in ServerSocks : IsOpen(i) =>
        /\ Get(schannels, socks[i].channel) = i
        /\ \A j \in ServerSocks \ {i} :
              IsOpen(j) /\ socks[j].socket = socks[i].socket
                  => socks[j].channel # socks[i].channel

\* C2: once close() has completed on a stream, a send on it puts no frame on
\* the physical connection.
C2_NoFrameAfterClose == \A f \in Frames : f.type = "data" => ~f.late

\* C3: on a stream registered through addChannel, close() calls produce one
\* close event, and one close frame when the physical connection is open;
\* a call after the first changes nothing.
C3_Counts ==
    \A i \in 1..Len(socks) : socks[i].closeFn = "full" =>
        /\ socks[i].closes = (IF socks[i].closed THEN 1 ELSE 0)
        /\ socks[i].closeTx <= 1
        /\ socks[i].closeTx = 1 => socks[i].closed
        /\ socks[i].closed /\ readyState(socks[i]) = OPEN => socks[i].closeTx = 1
C3_LaterCallsNoOp ==
    again' # again =>
        UNCHANGED <<registry, conns, channels, schannels, socks, c2s, s2c, nData>>
C3_CloseOnce == []C3_Counts /\ [][C3_LaterCallsNoOp]_vars
C3_Witness ==
    /\ again
    /\ \A i \in 1..Len(socks) : socks[i].closeFn = "full" =>
          /\ socks[i].closed /\ readyState(socks[i]) = OPEN
          /\ socks[i].closeTx = 1 /\ socks[i].closes = 1

\* The step is socket.onmessage of the client (of the server) of connection m.
IsClientReceive(m) ==
    /\ m \in 1..Len(conns) /\ conns[m].rs = OPEN /\ s2c[m] # <<>>
    /\ conns' = conns /\ s2c' = [s2c EXCEPT ![m] = Tail(@)]
IsServerReceive(m) ==
    /\ m \in 1..Len(conns) /\ conns[m].srv = OPEN /\ c2s[m] # <<>>
    /\ conns' = conns /\ c2s' = [c2s EXCEPT ![m] = Tail(@)]

\* What the claim says of a frame f routed through registry reg (reg2 after
\* the step): a close frame for a registered id gives that stream a close
\* event and removes the id; a data frame for an id that is not registered
\* reaches no stream.
C4_Routed(f, reg, reg2) ==
    LET i == Get(reg, f.channel)
    IN /\ f.type = "close" /\ i # Undef =>
            /\ socks'[i].closes = socks[i].closes + 1
            /\ ~Has(reg2, f.channel)
       /\ f.type = "data" /\ i = Undef =>
            \A j \in 1..Len(socks) : socks'[j].rx = socks[j].rx

\* C4: a close frame received for a registered channel X delivers a close
\* event to the stream at X and removes X from the registry; a data frame
\* for X after that is a routing miss.
C4_Step ==
    \A m \in 1..Len(conns) :
        /\ IsClientReceive(m) => C4_Routed(Head(s2c[m]), channels[m], channels'[m])
        /\ IsServerReceive(m) => C4_Routed(Head(c2s[m]), schannels, schannels')
C4_CloseFrame == [][C4_Step]_vars

\* The streams of the entries of a registry.
Registered(reg) == {reg[k].v : k \in 1..Len(reg)} \ {Undef}

\* What the claim says of the close handler of a multiplexer with registry reg
\* (reg2 after the step).
C5_Closed(reg, reg2) ==
    /\ reg2 = <<>>
    /\ \A i \in Registered(reg) :
          /\ socks'[i].closes = socks[i].closes + 1
          /\ socks'[i].code \in TransportCodes

\* C5: when the physical connection closes, every stream registered in the
\* engine's registry receives one close event with the transport's code, and
\* the registry is empty afterwards.
C5_Step ==
    \A m \in 1..Len(conns) :
        /\ conns[m].rs # CLOSED /\ conns'[m].rs = CLOSED
              => C5_Closed(channels[m], channels'[m])
        /\ conns[m].srv = OPEN /\ conns'[m].srv = CLOSED
              => C5_Closed(schannels, schannels')
C5_TransportClose == [][C5_Step]_vars

\* C6: a message event reaches a stream only from the stream its handshake
\* paired it with.
C6_OnlyPeer == \A i \in 1..Len(socks) : \A x \in socks[i].rx : socks[i].peer = x

\* The pool key of a client stream, and the connections opened for a key.
KeyOf(i) == <<BaseOf(socks[i].url), socks[i].protocols>>
OpenedFor(key) ==
    {m \in 1..Len(conns) :
        /\ conns[m].url = (IF key[1] = <<>> THEN <<"/">> ELSE key[1])
        /\ conns[m].protocols = key[2]}

\* C7: two client streams of the same base endpoint and sub-protocol use the
\* same physical connection, and at most one connection is opened per key.
C7_OnePerKey ==
    /\ \A i, j \in ClientSocks : KeyOf(i) = KeyOf(j) => socks[i].socket = socks[j].socket
    /\ \A u \in PoolURLs, p \in PoolProtocols : Cardinality(OpenedFor(<<BaseOf(u), p>>)) <= 1
C7_Witness ==
    /\ \E i, j \in ClientSocks :
          i # j /\ KeyOf(i) = KeyOf(j) /\ socks[i].socket = socks[j].socket
    /\ Len(conns) = 1

\* C8: a client stream whose backend name the server cannot resolve receives
\* no open event and stays in the connecting readiness state while the
\* physical connection is open.
C8_StaysConnecting ==
    \A i \in ClientSocks :
        ~getBackend(socks[i].url) /\ conns[socks[i].socket].rs = OPEN
            => socks[i].opens = 0 /\ readyState(socks[i]) = CONNECTING

\* The client streams of connection m, in creation order.
StreamsOf(m) ==
    SelectSeq([i \in 1..Len(socks) |-> i],
              LAMBDA i : socks[i].side = "c" /\ socks[i].socket = m)
Prefix(a, b) == Len(a) <= Len(b) /\ a = SubSeq(b, 1, Len(a))
By(frames) == [k \in 1..Len(frames) |-> frames[k].by]

\* C9: no connect frame is transmitted before the transport is ready; the
\* ready event transmits the postponed ones once each in creation order;
\* after it every connect frame is transmitted at once.
C9_Order ==
    \A m \in 1..Len(conns) :
        /\ conns[m].rs = CONNECTING =>
              /\ conns[m].tx = <<>> /\ c2s[m] = <<>>
              /\ By(conns[m].pending) = StreamsOf(m)
        /\ conns[m].rs = OPEN => conns[m].tx = StreamsOf(m)
        /\ conns[m].rs = CLOSED =>
              /\ Prefix(conns[m].tx, StreamsOf(m))
              /\ conns[m].pendingDef => conns[m].tx = <<>>
C9_Flush ==
    \A m \in 1..Len(conns) :
        conns[m].rs = CONNECTING /\ conns'[m].rs = OPEN =>
            /\ c2s'[m] = conns[m].pending
            /\ conns'[m].tx = StreamsOf(m)
            /\ ~conns'[m].pendingDef
C9_Queue == []C9_Order /\ [][C9_Flush]_vars
C9_Witness ==
    \E m \in 1..Len(conns) :
        /\ conns[m].rs = OPEN
        /\ Len(conns[m].tx) = MaxSocks
        /\ By(c2s[m]) = StreamsOf(m)

\* C10: a stream on which close() has completed receives no open event and is
\* in no registry.
C10_NeverReopens ==
    \A i \in 1..Len(socks) :
        /\ ~socks[i].reopened
        /\ socks[i].done =>
              /\ i \notin Registered(schannels)
              /\ \A m \in 1..Len(channels) : i \notin Registered(channels[m])

\* The id of frame f resolves in registry reg: the echoed temporary reference
\* of an open frame, the channel id of a data or close frame.
Resolves(f, reg) ==
    IF f.type = "open" THEN Get(reg, f.ref) # Undef
    ELSE IF f.type \in {"data", "close"} THEN Get(reg, f.channel) # Undef
    ELSE TRUE

\* C11: every data, close or open frame that a side processes carries an id
\* that resolves to an entry of that side's registry: no routing miss occurs.
C11_Step ==
    \A m \in 1..Len(conns) :
        /\ IsClientReceive(m) => Resolves(Head(s2c[m]), channels[m])
        /\ IsServerReceive(m) => Resolves(Head(c2s[m]), schannels)
C11_NoRoutingMiss == [][C11_Step]_vars

\* The handshake of client stream i has nothing left to wait for: the
\* backend name resolves, the connection is open at both ends, close() has
\* not run on the stream and no frame is in flight on the connection.
C12_Settled(i) ==
    LET m == socks[i].socket
    IN /\ getBackend(socks[i].url)
       /\ conns[m].rs = OPEN /\ conns[m].srv = OPEN
       /\ ~socks[i].done
       /\ c2s[m] = <<>> /\ s2c[m] = <<>>

\* C12: a client stream whose backend name resolves, whose connection is
\* ready and stays open and which is not closed first completes its
\* handshake: once the frames are delivered it is registered under its
\* channel id with the full close behaviour, and its open event fired once.
C12_HandshakeCompletes ==
    \A i \in ClientSocks :
        /\ ~socks[i].done => socks[i].opens <= 1
        /\ C12_Settled(i) =>
              /\ socks[i].opens = 1
              /\ socks[i].closeFn = "full"
              /\ Get(channels[socks[i].socket], socks[i].channel) = i

\* C13: a data, open or close frame whose id does not resolve is dropped: the
\* registry is unchanged, no stream receives an event and no frame is sent.
C13_Step ==
    \A m \in 1..Len(conns) :
        /\ IsClientReceive(m) /\ ~Resolves(Head(s2c[m]), channels[m]) =>
              /\ channels' = channels
              /\ socks' = socks
              /\ c2s' = c2s
        /\ IsServerReceive(m) /\ ~Resolves(Head(c2s[m]), schannels) =>
              /\ schannels' = schannels
              /\ socks' = socks
              /\ s2c' = s2c
C13_MissDropped == [][C13_Step]_vars

\* The client streams of connection m whose handshake is pending: registered
\* under their temporary reference only.
Pending(m) ==
    {i \in ClientSocks :
        /\ socks[i].socket = m /\ socks[i].closeFn = "temp"
        /\ Get(channels[m], socks[i].ref) = i}

\* C14: when the physical connection of a pending client stream closes, the
\* stream receives a close event with the transport's code and its temporary
\* registry entry is removed.
C14_Step ==
    \A m \in 1..Len(conns) :
        conns[m].rs # CLOSED /\ conns'[m].rs = CLOSED =>
            \A i \in Pending(m) :
                /\ socks'[i].closes = socks[i].closes + 1
                /\ socks'[i].code \in TransportCodes
                /\ i \notin Registered(channels'[m])
C14_PendingForceClosed == [][C14_Step]_vars

\* The step is the first close() the application calls on client stream i
\* while its handshake is pending.
IsPendingClose(i) ==
    /\ i \in ClientSocks /\ socks[i].closeFn = "temp"
    /\ ~socks[i].done /\ socks'[i].done
    /\ conns' = conns /\ s2c' = s2c

\* C15: a local close() on a client stream before its handshake completes
\* removes the stream's temporary registry entry and no other entry, and
\* transmits no frame.
C15_Step ==
    \A i \in 1..Len(socks) :
        IsPendingClose(i) =>
            LET m == socks[i].socket
            IN /\ channels'[m] = SelectSeq(channels[m],
                                    LAMBDA e : ~(e.k = socks[i].ref /\ e.v = i))
               /\ \A n \in 1..Len(conns) : n # m => channels'[n] = channels[n]
               /\ c2s' = c2s
C15_PendingClose == [][C15_Step]_vars

\* The close frames for channel x in a queue.
CloseFrames(q, x) == {k \in 1..Len(q) : q[k].type = "close" /\ q[k].channel = x}
\* The streams of one side of connection m whose closure has sent a close
\* frame for channel x.
Closers(side, m, x) ==
    {i \in 1..Len(socks) :
        /\ socks[i].side = side /\ socks[i].socket = m
        /\ socks[i].channel = x /\ socks[i].closeTx >= 1}

\* In each direction, every close frame for a channel in flight is the one
\* frame of a stream that closed.
C16_AtMostOne ==
    /\ \A i \in 1..Len(socks) : socks[i].closeTx <= 1
    /\ \A m \in 1..Len(conns), x \in Ids :
          /\ Cardinality(CloseFrames(c2s[m], x)) <= Cardinality(Closers("c", m, x))
          /\ Cardinality(CloseFrames(s2c[m], x)) <= Cardinality(Closers("s", m, x))

\* Once the close frames for the channel of a closed end are delivered, the
\* channel leads to neither end in either registry.
C16_Settled ==
    \A i \in 1..Len(socks) :
        LET m == socks[i].socket
            x == socks[i].channel
            ends == {i, socks[i].peer}
        IN /\ socks[i].closeFn = "full" /\ socks[i].closed /\ socks[i].peer # Undef
           /\ conns[m].rs = OPEN /\ conns[m].srv = OPEN
           /\ CloseFrames(c2s[m], x) = {} /\ CloseFrames(s2c[m], x) = {}
           => /\ Get(channels[m], x) \notin ends
              /\ Get(schannels, x) \notin ends

\* A close frame for channel x is in flight on connection m.
CloseInFlight(m, x) ==
    /\ m \in 1..Len(conns)
    /\ CloseFrames(c2s[m], x) # {} \/ CloseFrames(s2c[m], x) # {}
C16_Drains ==
    \A m \in 1..MaxSocks, x \in Ids : CloseInFlight(m, x) ~> ~CloseInFlight(m, x)

\* C16: closing one end of an established channel starts no unbounded
\* exchange: at most one close frame for the channel travels in each
\* direction, the close frames in flight are delivered, and when none is in
\* flight the channel is in neither registry.
C16_CloseTerminates == []C16_AtMostOne /\ []C16_Settled /\ C16_Drains
\* Both ends of a channel have closed, each sent its one close frame, and
\* nothing is left in flight or registered.
C16_Witness ==
    \E i \in ClientSocks :
        LET m == socks[i].socket
            j == socks[i].peer
        IN /\ j # Undef /\ socks[j].peer = i
           /\ socks[i].closed /\ socks[i].closeTx = 1
           /\ socks[j].closed /\ socks[j].closeTx = 1
           /\ conns[m].rs = OPEN /\ conns[m].srv = OPEN
           /\ c2s[m] = <<>> /\ s2c[m] = <<>>
           /\ channels[m] = <<>> /\ schannels = <<>>

\* C17: on the client a data or close frame for a channel is routed only
\* after the open frame for the channel has been processed: the stream that
\* handles it is registered under the channel id and not under a temporary
\* reference, has the full close behaviour and has had its open event.
C17_Step ==
    \A m \in 1..Len(conns) :
        IsClientReceive(m) =>
            LET f == Head(s2c[m])
                i == Get(channels[m], f.channel)
            IN f.type \in {"data", "close"} /\ i # Undef =>
                  /\ socks[i].closeFn = "full"
                  /\ socks[i].channel = f.channel
                  /\ socks[i].opens >= 1
C17_OpenFirst == [][C17_Step]_vars

\* C18: the pool drops the entry of a connection that has closed and that no
\* stream is registered on, so a stream created for the key afterwards is not
\* bound to the closed connection.
C18_Step ==
    Len(socks') = Len(socks) + 1 /\ socks'[Len(socks')].side = "c"
        => conns'[socks'[Len(socks')].socket].rs # CLOSED
C18_PoolLifecycle == [][C18_Step]_vars

\* The server streams bound to an open connection other than m.
OthersOf(m) ==
    {j \in ServerSocks : socks[j].socket # m /\ conns[socks[j].socket].srv = OPEN}

\* C19: on a server with several connections, the close of connection m
\* closes only the streams bound to m: a stream of another open connection
\* gets no close event, keeps its registry entry, and no frame is sent on
\* its connection.
C19_Step ==
    \A m \in 1..Len(conns) :
        conns[m].srv = OPEN /\ conns'[m].srv = CLOSED =>
            \A j \in OthersOf(m) :
                /\ socks'[j].closes = socks[j].closes
                /\ Get(schannels, socks[j].channel) = j
                      => Get(schannels', socks[j].channel) = j
                /\ s2c'[socks[j].socket] = s2c[socks[j].socket]
C19_OnlyOwnStreams == [][C19_Step]_vars

\* C20: on a server with several connections, a data or close frame that
\* arrives on connection m raises no message or close event on a stream
\* bound to another connection.
C20_Step ==
    \A m \in 1..Len(conns) :
        IsServerReceive(m) /\ Head(c2s[m]).type \in {"data", "close"} =>
            \A j \in ServerSocks :
                socks[j].socket # m =>
                    /\ socks'[j].rx = socks[j].rx
                    /\ socks'[j].closes = socks[j].closes
C20_OwnConnectionOnly == [][C20_Step]_vars

\* Client stream i, the only stream of its connection, was closed by its
\* application while its handshake was pending; its connect frame was sent,
\* the connection is open at both ends and no frame is in flight on it.
C21_ClosedPending(i) ==
    LET m == socks[i].socket
    IN /\ StreamsOf(m) = <<i>> /\ conns[m].tx = <<i>>
       /\ socks[i].closeFn = "temp" /\ socks[i].done
       /\ conns[m].rs = OPEN /\ conns[m].srv = OPEN
       /\ c2s[m] = <<>> /\ s2c[m] = <<>>

\* C21: when a client stream is closed locally after its connect frame was
\* sent and before the open frame arrives, the server stream created for
\* the request is closed and removed from the server's registry while the
\* connection is open: once the frames are delivered no server stream of the
\* connection is left open or registered.
C21_NoOrphan ==
    \A i \in ClientSocks :
        C21_ClosedPending(i) =>
            \A j \in ServerSocks :
                socks[j].socket = socks[i].socket =>
                    /\ socks[j].closed
                    /\ j \notin Registered(schannels)

====
